---------------------------- MODULE Spec2Model ----------------------------
(***************************************************************************)
(* Model of fndigrazia/clasificador: the URL classification pipeline       *)
(* (src/clasificador.py), the page fetcher (src/scraper.py) and the LLM    *)
(* provider adapters with their response parser (src/llm_providers.py).    *)
(*                                                                         *)
(* Text is modelled as a sequence of symbols.  A symbol is one character,  *)
(* except that the keyword "http" and the separators "://" count as one    *)
(* symbol each, so that "https://a" is <<"http","s","://","a">>.           *)
(* Python values are tagged records: None, Str(text), List(items).         *)
(* A Python dict is a function from its keys to such values.               *)
(***************************************************************************)
EXTENDS Integers, Sequences, FiniteSets, TLC

\* ------------------------------------------------------------------------
\* Bounds of the model
\* ------------------------------------------------------------------------
MaxStore == 3       \* entries the store has room for: a run starts only if the
                    \* entries it keeps and the URLs it will process fit
PoolSize == 11      \* URLs of the long input file
MaxLag == 1         \* finished futures that can wait for main to collect them

\* ------------------------------------------------------------------------
\* Python values
\* ------------------------------------------------------------------------
None == [t |-> "None"]
Str(s) == [t |-> "str", s |-> s]
List(l) == [t |-> "list", l |-> l]

\* bool(v) for the values of the model
Truthy(v) ==
    CASE v.t = "str" -> v.s # <<>>
      [] v.t = "list" -> v.l # <<>>
      [] OTHER -> FALSE

\* d.get(k)
Get(d, k) == IF k \in DOMAIN d THEN d[k] ELSE None

\* {**a, **b}: the keys of b win
Merge(a, b) ==
    [k \in (DOMAIN a) \cup (DOMAIN b) |-> IF k \in DOMAIN b THEN b[k] ELSE a[k]]

Range(s) == {s[i] : i \in 1..Len(s)}

\* ------------------------------------------------------------------------
\* Text
\* ------------------------------------------------------------------------
WHITESPACE == {" ", "\n"}
QUOTE == "\""

RECURSIVE LStrip(_, _)
LStrip(s, chars) ==
    IF s # <<>> /\ Head(s) \in chars THEN LStrip(Tail(s), chars) ELSE s

RECURSIVE RStrip(_, _)
RStrip(s, chars) ==
    IF s # <<>> /\ s[Len(s)] \in chars THEN RStrip(SubSeq(s, 1, Len(s) - 1), chars) ELSE s

\* str.strip(chars)
Strip(s, chars) == RStrip(LStrip(s, chars), chars)

\* str.startswith(prefix)
StartsWith(s, prefix) ==
    Len(s) >= Len(prefix) /\ SubSeq(s, 1, Len(prefix)) = prefix

\* sub in s
Contains(s, sub) ==
    \E i \in 0..(Len(s) - Len(sub)) : SubSeq(s, i + 1, i + Len(sub)) = sub

HTTP == <<"http">>
HTTPS == <<"http", "s">>
HTTP_SCHEME == <<"http", "://">>
HTTPS_SCHEME == <<"http", "s", "://">>

\* ------------------------------------------------------------------------
\* scraper.normalize_url
\* ------------------------------------------------------------------------
normalize_url(raw) ==
    LET url == Strip(Strip(raw, WHITESPACE), {QUOTE})
    IN  IF url = <<>> \/ url \in {HTTPS_SCHEME, HTTP_SCHEME, HTTPS, HTTP}
        THEN None
        ELSE IF ~(StartsWith(url, HTTP_SCHEME) \/ StartsWith(url, HTTPS_SCHEME))
             THEN Str(HTTPS_SCHEME \o url)
             ELSE Str(url)

\* clasificador.load_urls: the normalized lines, in file order, invalid ones skipped
RECURSIVE load_urls(_)
load_urls(lines) ==
    IF lines = <<>> THEN <<>>
    ELSE LET url == normalize_url(Head(lines))
         IN  (IF Truthy(url) THEN <<url.s>> ELSE <<>>) \o load_urls(Tail(lines))

\* ------------------------------------------------------------------------
\* The fetcher's result dict (scraper.scrape_url) as seen by process_url
\* ------------------------------------------------------------------------
Dict(d) == [t |-> "dict", d |-> d]

ERR_DOWNLOAD == <<"Failed to download URL">>
ERR_TIMEOUT == <<"Timed out after ", "15", "s">>
TITLE == <<"T">>
LANG == <<"e", "n">>

\* the dict scrape_url starts from (scraper.py lines 89-98)
EmptyPage(url) ==
    [url |-> Str(url), title |-> None, description |-> None, og_tags |-> Dict(<<>>),
     meta_keywords |-> None, text_content |-> None, language_hint |-> None,
     error |-> None]

\* ------------------------------------------------------------------------
\* llm_providers: the response parser
\* ------------------------------------------------------------------------
EXPECTED_FIELDS ==
    {"site_cat", "site_pagecat", "site_content_cat",
     "site_content_language", "site_content_keywords", "site_content_title"}
CAT_FIELDS == {"site_cat", "site_pagecat", "site_content_cat"}

\* How a call of provider.classify ends: it returns a dict, it raises an
\* exception whose str() is text, or its loop ends without a return statement
\* and the call returns None.
Return(v) == [kind |-> "return", value |-> v]
Raise(text) == [kind |-> "raise", error |-> text]
FellThrough == [kind |-> "none"]

\* code.split("-")[0]
RECURSIVE BeforeDash(_)
BeforeDash(code) ==
    IF code = <<>> \/ Head(code) = "-" THEN <<>>
    ELSE <<Head(code)>> \o BeforeDash(Tail(code))

\* a loop that appends nothing
EnsureLoop_Skip(todo, result) == result

\* the loop of _ensure_parent_cats over the codes still to visit
RECURSIVE EnsureLoop(_, _)
EnsureLoop(todo, result) ==
    IF todo = <<>> THEN result
    ELSE LET code == Head(todo)
             parent == BeforeDash(code)
         IN  IF "-" \in Range(code) /\ parent \notin Range(result)
             THEN EnsureLoop(Tail(todo), Append(result, parent))
             ELSE EnsureLoop(Tail(todo), result)

\* a variant that puts the parents in front of the list
_ensure_parent_cats_Front(cats) ==
    IF cats = <<>> THEN cats ELSE EnsureLoop(cats, <<>>) \o cats

_ensure_parent_cats(cats) ==
    IF cats = <<>> THEN cats ELSE EnsureLoop(cats, cats)

\* The text a provider returns, after json.loads: an object (a dict), another
\* JSON value, or text json.loads rejects with a JSONDecodeError whose message
\* is msg.
JsonObject(d) == [j |-> "object", obj |-> d]
JsonOther == [j |-> "other"]
JsonInvalid(msg) == [j |-> "invalid", msg |-> msg]

ERR_NOT_OBJECT == <<"TypeError">>

parse_llm_response(doc) ==
    IF doc.j = "invalid" THEN Raise(doc.msg)
    ELSE IF doc.j # "object" THEN Raise(ERR_NOT_OBJECT)
    ELSE LET filled == Merge([f \in EXPECTED_FIELDS |-> None], doc.obj)
         IN  Return([k \in DOMAIN filled |->
                        IF k \in CAT_FIELDS /\ filled[k].t = "list"
                        THEN List(_ensure_parent_cats(filled[k].l))
                        ELSE filled[k]])

\* ------------------------------------------------------------------------
\* clasificador.process_url: the entry recorded for url, given the dict the
\* fetcher returned and what provider.classify did (returned a dict, raised)
\* ------------------------------------------------------------------------
ScrapeErrorEntry(url, scraped) ==
    [url |-> Str(url),
     scrape_error |-> scraped["error"],
     site_cat |-> None, site_pagecat |-> None, site_content_cat |-> None,
     site_content_language |-> Get(scraped, "language_hint"),
     site_content_keywords |-> None,
     site_content_title |-> Get(scraped, "title")]

SuccessEntry(url, classification) ==
    Merge([url |-> Str(url), scrape_error |-> None], classification)

LlmErrorEntry(url, scraped, error) ==
    [url |-> Str(url),
     llm_error |-> Str(error),
     site_cat |-> None, site_pagecat |-> None, site_content_cat |-> None,
     site_content_language |-> Get(scraped, "language_hint"),
     site_content_keywords |-> None,
     site_content_title |-> Get(scraped, "title")]

\* what a call gives that lets the exception of provider.classify escape
Escaped == [escaped |-> TRUE]

\* str() of the TypeError of {**None}
ERR_NOT_MAPPING == <<"'NoneType' object is not a mapping">>

\* a test that takes every fetch for a good one
fetch_failed_Never(scraped) == FALSE

\* line 116: if scraped.get("error")
fetch_failed(scraped) == Truthy(Get(scraped, "error"))

process_url_NoCatch(url, scraped, outcome) ==
    IF fetch_failed(scraped) THEN ScrapeErrorEntry(url, scraped)
    ELSE IF outcome.kind = "return" THEN SuccessEntry(url, outcome.value)
    ELSE Escaped

process_url(url, scraped, outcome) ==
    IF fetch_failed(scraped) THEN ScrapeErrorEntry(url, scraped)
    ELSE IF outcome.kind = "return" THEN SuccessEntry(url, outcome.value)
    ELSE IF outcome.kind = "raise" THEN LlmErrorEntry(url, scraped, outcome.error)
    ELSE LlmErrorEntry(url, scraped, ERR_NOT_MAPPING)

\* ------------------------------------------------------------------------
\* The result store (the output file) and clasificador.load_existing_results,
\* clasificador.save_results
\* ------------------------------------------------------------------------
AbsentFile == [kind |-> "absent"]
PartialFile == [kind |-> "partial"]     \* opened for writing, not yet written out
JsonFile(entries) == [kind |-> "json", data |-> entries]

\* a file open() cannot read (no permission, a directory)
UnreadableFile == [kind |-> "unreadable"]
\* a JSON document that is no array, such as {"a": 1}
NotArrayFile == [kind |-> "json_other"]
\* an element of a JSON array that is an object with no url
BadEntry == [site_cat |-> None]

\* lines 26-30: open() raises an OSError that is no FileNotFoundError, which
\* the except clause lets through
load_raises(file) == file.kind = "unreadable"

\* what json.load returned makes main() raise when it reads r["url"] of each
\* element (lines 154-159)
urls_raise(file) ==
    \/ file.kind = "json_other"
    \/ file.kind = "json" /\ \E i \in 1..Len(file.data) : "url" \notin DOMAIN file.data[i]

\* the files the output path can hold before the first run
InitialStores == {AbsentFile, UnreadableFile, NotArrayFile, JsonFile(<<BadEntry>>)}

load_existing_results(file) ==
    IF file.kind = "json" THEN file.data ELSE <<>>

\* a save that leaves the last entry out
save_results_Stale(entries) ==
    JsonFile(IF entries = <<>> THEN <<>> ELSE SubSeq(entries, 1, Len(entries) - 1))

\* a save that writes the newest entry only
save_results_Newest(entries) ==
    JsonFile(IF entries = <<>> THEN <<>> ELSE <<entries[Len(entries)]>>)

\* json.dump(results, f, ...) once the file is written out and closed
save_results(entries) == JsonFile(entries)

\* ------------------------------------------------------------------------
\* What one run of main() is given
\* ------------------------------------------------------------------------
LineA == <<"a", "\n">>
LineA2 == <<"http", "s", "://", "a", "\n">>
LineB == <<" ", QUOTE, "b", QUOTE, "\n">>
LinePlaceholder == <<"http", "://", "\n">>
RawLines == {LineA, LineA2, LineB, LinePlaceholder}
\* the input files of the model: every file of at most two of these lines
InputFiles == UNION {[1..k -> RawLines] : k \in 0..2}

\* the long input file: PoolSize lines, each the name of a host of its own
PoolLine(i) == <<ToString(i), "\n">>
PoolFile == [i \in 1..PoolSize |-> PoolLine(i)]
PoolUrls == {HTTPS_SCHEME \o <<ToString(i)>> : i \in 1..PoolSize}

UrlA == HTTPS_SCHEME \o <<"a">>
UrlB == HTTPS_SCHEME \o <<"b">>

MaxRequestsValues == {0, 1}
WorkersValues == {1, 2}
\* --delay (lines 88-89), in seconds
DelayValues == {0, 1}
SAVE_EVERY == 10

\* what the fetcher hands to process_url in the runs of the pipeline
PageFetched(url) ==
    [EmptyPage(url) EXCEPT !.title = Str(TITLE), !.language_hint = Str(LANG),
                           !.text_content = Str(<<"x">>)]
PageFailed(url) == [EmptyPage(url) EXCEPT !.error = Str(ERR_DOWNLOAD)]
Pages(url) == {PageFetched(url), PageFailed(url)}

\* what provider.classify does in the runs of the pipeline
CODE_IAB1 == <<"I", "A", "B", "1">>
CODE_IAB1_7 == <<"I", "A", "B", "1", "-", "7">>
ObjGood == [site_cat |-> List(<<CODE_IAB1>>), site_pagecat |-> List(<<CODE_IAB1_7>>)]
ObjWithUrl == [site_cat |-> List(<<CODE_IAB1>>), url |-> Str(UrlB)]
ERR_PROVIDER == <<"500 Server Error">>
ClassifyOutcomes ==
    {parse_llm_response(JsonObject(ObjGood)),
     parse_llm_response(JsonObject(ObjWithUrl)),
     Raise(ERR_PROVIDER)}

\* the entries process_url can return for url; the hosts of the long input
\* file always answer and are always classified
UrlResults(url) ==
    IF url \in PoolUrls
    THEN {process_url(url, PageFetched(url), parse_llm_response(JsonObject(ObjGood)))}
    ELSE {process_url(url, page, outcome) :
             page \in Pages(url), outcome \in ClassifyOutcomes}

\* ------------------------------------------------------------------------
\* main(): the startup protocol (clasificador.py lines 147-172)
\* ------------------------------------------------------------------------
HasError(r) == Truthy(Get(r, "llm_error")) \/ Truthy(Get(r, "scrape_error"))

RECURSIVE WithoutUrls(_, _)
WithoutUrls(entries, urlset) ==
    IF entries = <<>> THEN <<>>
    ELSE (IF Head(entries)["url"] \notin urlset THEN <<Head(entries)>> ELSE <<>>)
         \o WithoutUrls(Tail(entries), urlset)

\* lines 153-157
error_urls(entries) == {r["url"] : r \in {x \in Range(entries) : HasError(x)}}
RetryFilter(entries) == WithoutUrls(entries, error_urls(entries))

\* lines 156, 159
processed_urls(entries) == {r["url"] : r \in Range(entries)}

\* line 162
FilterPending_NoFilter(urls, processed) == urls

RECURSIVE FilterPending(_, _)
FilterPending(urls, processed) ==
    IF urls = <<>> THEN <<>>
    ELSE (IF Str(Head(urls)) \notin processed THEN <<Head(urls)>> ELSE <<>>)
         \o FilterPending(Tail(urls), processed)

\* lines 170-171
ApplyCap(pend, max_requests) ==
    IF max_requests > 0 /\ Len(pend) > max_requests
    THEN SubSeq(pend, 1, max_requests)
    ELSE pend

\* ------------------------------------------------------------------------
\* State of the pipeline
\* ------------------------------------------------------------------------
VARIABLES
    inputFile,        \* the lines of the input file
    storeFile,        \* the output file
    pc,               \* where main() is: "idle" (not started), "seq", "par",
                      \* "save", "saving", "delay", "done" (returned)
    args,             \* the arguments of the current run
    results,          \* main's list `results`
    pending,          \* main's list `pending`
    idx,              \* sequential mode: URLs processed so far (the loop's i)
    completed_count,  \* concurrent mode: main's completed_count
    futures,          \* concurrent mode: state of the future of each pending URL
    saveNext,         \* where main() continues after the save in progress
    \* history of the current run, read by the properties only
    kept,             \* the results after the retry-errors filter
    fullPending,      \* pending before the max-requests cap
    dispatched,       \* the URLs handed to process_url, in order
    appended,         \* the positions in pending whose result was appended, in order
    fileAtStart,      \* the output file when the run started
    log,              \* what main() has done so far: URLs processed, saves, sleeps
    prev              \* how the previous run ended

pipeVars == <<inputFile, storeFile, pc, args, results, pending, idx, completed_count,
              futures, saveNext, kept, fullPending, dispatched, appended,
              fileAtStart, log, prev>>

\* State of one call of process_url, followed step by step
VARIABLES
    provider,         \* the provider variant: "gemini", "ollama" or "groq"
    upc,              \* where the call is
    thread,           \* where the fetch thread of scrape_url is
    scraped,          \* the dict `result` of scrape_url, shared with the thread
    seen,             \* what process_url has read from it for a scrape-error entry
    attempt,          \* the loop variable of classify
    responses,        \* what the provider answered to each request, in order
    waits,            \* the arguments of the calls of time.sleep, in order
    outcome,          \* how classify ended
    entry,            \* what process_url returned
    \* history, read by the properties only
    timedOut,         \* scrape_url saw the thread alive after join
    atTimeout,        \* `result` as scrape_url returned it after a time-out
    threadError       \* the thread recorded a failure of the fetch

urlVars == <<provider, upc, thread, scraped, seen, attempt, responses, waits,
             outcome, entry, timedOut, atTimeout, threadError>>

\* One call of a function of the program on its own
VARIABLES
    call,             \* the function called and its argument
    ret               \* what it returned, once it has

pureVars == <<call, ret>>

vars == <<pipeVars, urlVars, pureVars>>

NoCall == [fn |-> "none"]
NotReturned == [returned |-> FALSE]
PureIdle == call = NoCall /\ ret = NotReturned

NoArgs ==
    [retry_errors |-> FALSE, max_requests |-> 0, workers |-> 1, keyless |-> FALSE,
     delay |-> 0]
NoPrev == [ended |-> "none", truncated |-> FALSE]

\* main's memory before it has loaded anything
NoMemory ==
    /\ results = <<>>
    /\ pending = <<>>
    /\ idx = 0
    /\ completed_count = 0
    /\ futures = <<>>
    /\ saveNext = "done"
    /\ kept = <<>>
    /\ fullPending = <<>>
    /\ dispatched = <<>>
    /\ appended = <<>>
    /\ log = <<>>

PipeInit ==
    /\ inputFile \in InputFiles
    /\ storeFile \in InitialStores
    /\ pc = "idle"
    /\ args = NoArgs
    /\ fileAtStart = AbsentFile
    /\ prev = NoPrev
    /\ NoMemory

\* no call of process_url is followed step by step
NoSeen == [error |-> None, language_hint |-> None, title |-> None]
NoOutcome == [kind |-> "pending"]
UrlIdle ==
    /\ provider = "ollama"
    /\ upc = "idle"
    /\ thread = "dead"
    /\ scraped = EmptyPage(UrlA)
    /\ seen = NoSeen
    /\ attempt = 0
    /\ responses = <<>>
    /\ waits = <<>>
    /\ outcome = NoOutcome
    /\ entry = None
    /\ timedOut = FALSE
    /\ atTimeout = None
    /\ threadError = FALSE

Stopped == pc = "idle"

\* create_provider (lines 39-57): the variant made, or "exit" when Gemini or
\* Groq is asked for and no key is given or found in the environment
ProviderNames == {"gemini", "ollama", "groq"}
create_provider(variant, api_key) ==
    IF variant \in {"gemini", "groq"} /\ ~api_key THEN "exit" ELSE variant

\* main(), lines 151-162: the results kept and the URLs pending
KeptAt(retry) ==
    IF retry THEN RetryFilter(load_existing_results(storeFile))
    ELSE load_existing_results(storeFile)
PendingAt(retry) == FilterPending(load_urls(inputFile), processed_urls(KeptAt(retry)))

\* main() from its start to the first URL (lines 144-188): load, filter, cap and,
\* in concurrent mode, submit every pending URL to the pool
StartRun ==
    /\ UNCHANGED <<urlVars, pureVars>>
    /\ Stopped
    /\ ~load_raises(storeFile) /\ ~urls_raise(storeFile)
    /\ \E retry \in BOOLEAN, cap \in MaxRequestsValues, workers \in WorkersValues,
          variant \in ProviderNames, api_key \in BOOLEAN, delay \in DelayValues :
        LET res1 == KeptAt(retry)
            pend0 == PendingAt(retry)
            pend1 == ApplyCap(pend0, cap)
            made == create_provider(variant, api_key)
        IN  /\ prev.ended = "none" \/ Len(res1) + Len(pend1) <= MaxStore
            /\ pend0 = <<>> \/ made # "exit"
            /\ args' = [retry_errors |-> retry, max_requests |-> cap, workers |-> workers,
                        keyless |-> made = "exit", delay |-> delay]
            /\ results' = res1
            /\ kept' = res1
            /\ fullPending' = pend0
            /\ pending' = IF pend0 = <<>> THEN <<>> ELSE pend1
            /\ pc' = IF pend0 = <<>> THEN "done"
                     ELSE IF workers > 1 THEN "par" ELSE "seq"
            /\ futures' = IF pend0 # <<>> /\ workers > 1
                          THEN [i \in 1..Len(pend1) |-> "queued"] ELSE <<>>
    /\ idx' = 0
    /\ completed_count' = 0
    /\ saveNext' = "done"
    /\ dispatched' = <<>>
    /\ appended' = <<>>
    /\ fileAtStart' = storeFile
    /\ log' = <<>>
    /\ UNCHANGED <<inputFile, storeFile, prev>>

\* the process is gone (ended says how): everything but the files is lost
Gone(ended) ==
    /\ pc' = "idle"
    /\ prev' = [ended |-> ended, truncated |-> ended = "done" /\ pending # fullPending]
    /\ args' = NoArgs
    /\ results' = <<>>
    /\ pending' = <<>>
    /\ idx' = 0
    /\ completed_count' = 0
    /\ futures' = <<>>
    /\ saveNext' = "done"
    /\ kept' = <<>>
    /\ fullPending' = <<>>
    /\ dispatched' = <<>>
    /\ appended' = <<>>
    /\ fileAtStart' = AbsentFile
    /\ log' = <<>>
    /\ UNCHANGED <<inputFile, storeFile>>

\* main() dies of an exception before it has a pending list (lines 151-159)
StartFails ==
    /\ UNCHANGED <<urlVars, pureVars>>
    /\ Stopped
    /\ load_raises(storeFile) \/ urls_raise(storeFile)
    /\ Gone("fatal")

\* main(), line 175: there are URLs to process and create_provider ends the
\* process with sys.exit(1)
ConfigError ==
    /\ UNCHANGED <<urlVars, pureVars>>
    /\ Stopped
    /\ ~load_raises(storeFile) /\ ~urls_raise(storeFile)
    /\ \E retry \in BOOLEAN, variant \in ProviderNames, api_key \in BOOLEAN :
        /\ PendingAt(retry) # <<>>
        /\ create_provider(variant, api_key) = "exit"
    /\ Gone("config_error")

\* the entries of the log
Processed(i) == [ev |-> "url", n |-> i]
Saved(file) == [ev |-> "save", n |-> 0, file |-> file]
Slept(seconds) == [ev |-> "sleep", n |-> seconds]

\* sequential mode, lines 207-220: process the next URL and append its entry;
\* an exception that leaves process_url ends main() with a traceback
SeqProcess ==
    /\ UNCHANGED <<urlVars, pureVars>>
    /\ pc = "seq"
    /\ idx < Len(pending)
    /\ \E made \in UrlResults(pending[idx + 1]) :
        IF made = Escaped
        THEN Gone("crashed")
        ELSE /\ results' = Append(results, made)
             /\ dispatched' = Append(dispatched, pending[idx + 1])
             /\ appended' = Append(appended, idx + 1)
             /\ idx' = idx + 1
             /\ pc' = "save"
             /\ saveNext' = "delay"
             /\ log' = Append(log, Processed(idx + 1))
             /\ UNCHANGED <<inputFile, storeFile, args, pending, completed_count,
                            futures, kept, fullPending, fileAtStart, prev>>

\* save_results, line 35: open(filepath, "w") truncates the file
SaveOpen ==
    /\ UNCHANGED <<urlVars, pureVars>>
    /\ pc = "save"
    /\ storeFile' = PartialFile
    /\ pc' = "saving"
    /\ UNCHANGED <<inputFile, log, args, results, pending, idx, completed_count, futures,
                   saveNext, kept, fullPending, dispatched, appended,
                   fileAtStart, prev>>

\* save_results, line 36 and the end of the with block: the document is written
SaveClose ==
    /\ UNCHANGED <<urlVars, pureVars>>
    /\ pc = "saving"
    /\ storeFile' = save_results(results)
    /\ pc' = saveNext
    /\ log' = Append(log, Saved(save_results(results)))
    /\ UNCHANGED <<inputFile, args, results, pending, idx, completed_count, futures,
                   saveNext, kept, fullPending, dispatched, appended,
                   fileAtStart, prev>>

\* line 223: the sleep is due after the URL at position i (from 0) of n
DelayDue_Always(delay, i, n) == delay > 0

DelayDue(delay, i, n) == delay > 0 /\ i < n - 1

\* sequential mode, lines 223-224 and the end of the loop body: the sleep
\* between two URLs
SeqDelay ==
    /\ UNCHANGED <<urlVars, pureVars>>
    /\ pc = "delay"
    /\ log' = IF DelayDue(args.delay, idx - 1, Len(pending))
              THEN Append(log, Slept(args.delay)) ELSE log
    /\ pc' = IF idx < Len(pending) THEN "seq" ELSE "done"
    /\ UNCHANGED <<inputFile, storeFile, args, results, pending, idx, completed_count,
                   futures, saveNext, kept, fullPending, dispatched, appended,
                   fileAtStart, prev>>

Running == {i \in 1..Len(futures) : futures[i] = "running"}
QueuedIdx == {i \in 1..Len(futures) : futures[i] = "queued"}
FinishedIdx == {i \in 1..Len(futures) : futures[i] = "finished"}
PoolAlive == pc \in {"par", "save", "saving"} /\ args.workers > 1

\* ThreadPoolExecutor(max_workers=args.workers), line 184: a pool thread is
\* free to take a queued call
WorkerFree_Always == TRUE

WorkerFree == Cardinality(Running) < args.workers

\* a pool thread takes the oldest queued URL and calls process_url (line 186)
WorkerStart ==
    /\ UNCHANGED <<urlVars, pureVars>>
    /\ PoolAlive
    /\ QueuedIdx # {}
    /\ WorkerFree
    /\ LET i == CHOOSE j \in QueuedIdx : \A k \in QueuedIdx : j <= k
       IN  /\ futures' = [futures EXCEPT ![i] = "running"]
           /\ dispatched' = Append(dispatched, pending[i])
    /\ UNCHANGED <<inputFile, log, storeFile, pc, args, results, pending, idx,
                   completed_count, saveNext, kept, fullPending, appended,
                   fileAtStart, prev>>

\* process_url returns in a pool thread: its future is done
WorkerFinish ==
    /\ UNCHANGED <<urlVars, pureVars>>
    /\ PoolAlive
    /\ Cardinality(FinishedIdx) < MaxLag
    /\ \E i \in Running : futures' = [futures EXCEPT ![i] = "finished"]
    /\ UNCHANGED <<inputFile, log, storeFile, pc, args, results, pending, idx,
                   completed_count, saveNext, kept, fullPending, dispatched,
                   appended, fileAtStart, prev>>

\* a loop that never saves on the way
SaveDue_Never(count) == FALSE

\* line 199: completed_count % 10 == 0
SaveDue(count) == count % SAVE_EVERY = 0

AllCollected == \A i \in 1..Len(futures) : futures[i] = "collected"

\* concurrent mode, lines 189-200: the body of the as_completed loop for one
\* finished future, up to the decision to save; future.result() gives the entry
\* process_url returned, or raises what left process_url
Collect ==
    /\ UNCHANGED <<urlVars, pureVars>>
    /\ pc = "par"
    /\ \E i \in FinishedIdx : \E made \in UrlResults(pending[i]) :
        IF made = Escaped
        THEN Gone("crashed")
        ELSE /\ results' = Append(results, made)
             /\ futures' = [futures EXCEPT ![i] = "collected"]
             /\ appended' = Append(appended, i)
             /\ completed_count' = completed_count + 1
             /\ IF SaveDue(completed_count + 1)
                THEN pc' = "save" /\ saveNext' = "par"
                ELSE pc' = "par" /\ UNCHANGED saveNext
             /\ UNCHANGED <<inputFile, log, storeFile, args, pending, idx, kept,
                            fullPending, dispatched, fileAtStart, prev>>

\* concurrent mode, line 203: every future was collected, the final save
FinalSave ==
    /\ UNCHANGED <<urlVars, pureVars>>
    /\ pc = "par"
    /\ AllCollected
    /\ pc' = "save"
    /\ saveNext' = "done"
    /\ UNCHANGED <<inputFile, log, storeFile, args, results, pending, idx, completed_count,
                   futures, kept, fullPending, dispatched, appended,
                   fileAtStart, prev>>

\* main() returns (line 167 or 226) and the process exits
Exit ==
    /\ UNCHANGED <<urlVars, pureVars>>
    /\ pc = "done"
    /\ Gone("done")

\* the process is terminated while main() is at work
Kill ==
    /\ UNCHANGED <<urlVars, pureVars>>
    /\ pc \notin {"idle", "done"}
    /\ Gone("killed")

Next ==
    \/ StartRun
    \/ StartFails
    \/ ConfigError
    \/ SeqProcess
    \/ SaveOpen
    \/ SaveClose
    \/ SeqDelay
    \/ WorkerStart
    \/ WorkerFinish
    \/ Collect
    \/ FinalSave
    \/ Exit
    \/ Kill

Init == PipeInit /\ UrlIdle /\ PureIdle

\* the runs over the long input file
PoolInit ==
    /\ inputFile = PoolFile
    /\ storeFile \in InitialStores
    /\ pc = "idle"
    /\ args = NoArgs
    /\ fileAtStart = AbsentFile
    /\ prev = NoPrev
    /\ NoMemory

InitPool == PoolInit /\ UrlIdle /\ PureIdle

SpecPool == InitPool /\ [][Next]_vars

Spec == Init /\ [][Next]_vars

\* ------------------------------------------------------------------------
\* Properties of the pipeline
\* ------------------------------------------------------------------------
\* the entries a load of the file returns
EntriesOf(file) == IF file.kind = "json" THEN file.data ELSE <<>>
UrlsOf(entries) == {entries[i]["url"] : i \in 1..Len(entries)}
ErrorSet(e) == Truthy(Get(e, "scrape_error")) \/ Truthy(Get(e, "llm_error"))
\* the entries the current run appended
NewEntries == SubSeq(results, Len(kept) + 1, Len(results))
StoredAtStart == EntriesOf(fileAtStart)

(* C1: the persisted store never holds two entries with the same url, whatever
   the runs, the input file (also one listing a URL twice, or two lines that
   normalize to the same URL), the mode and the flags. *)
C1_StoreUrlsUnique ==
    \A i, j \in 1..Len(EntriesOf(storeFile)) :
        i # j => EntriesOf(storeFile)[i]["url"] # EntriesOf(storeFile)[j]["url"]

(* C2: idempotent resume.  After a run that ended by itself (read here for a run
   whose pending list the max-requests cap did not cut), a second run on the same
   input and store without retry-errors dispatches no URL and leaves the store
   as it found it. *)
C2_IdempotentResume ==
    (pc # "idle" /\ prev.ended = "done" /\ ~prev.truncated /\ ~args.retry_errors)
        => (pending = <<>> /\ dispatched = <<>> /\ storeFile = fileAtStart)

(* C3: in a run without retry-errors, started from any store (also one left by
   an interrupted run), no URL that has an entry in the loaded store is
   dispatched. *)
C3_StoredUrlsNotDispatched ==
    (pc # "idle" /\ ~args.retry_errors)
        => \A i \in 1..Len(dispatched) : Str(dispatched[i]) \notin UrlsOf(StoredAtStart)

C3_Witness ==
    /\ pc # "idle"
    /\ ~args.retry_errors
    /\ prev.ended = "killed"
    /\ dispatched # <<>>
    /\ \E u \in Range(load_urls(inputFile)) : Str(u) \in UrlsOf(StoredAtStart)

(* C4: with retry-errors the URLs the run processes again are exactly the URLs
   whose stored entry had scrape_error or llm_error set, and every stored entry
   with neither set is still in the store after the run (read here for a run
   whose pending list the max-requests cap did not cut). *)
C4_RetryExactlyFailed ==
    (pc = "done" /\ args.retry_errors /\ pending = fullPending)
        => /\ {Str(u) : u \in Range(dispatched)} \cap UrlsOf(StoredAtStart)
                = {e["url"] : e \in {x \in Range(StoredAtStart) : ErrorSet(x)}}
           /\ \A i \in 1..Len(StoredAtStart) :
                ~ErrorSet(StoredAtStart[i])
                    => StoredAtStart[i] \in Range(EntriesOf(storeFile))

(* C5: with a cap N > 0 and more than N pending URLs, the run processes exactly
   the first N pending URLs in input order, and none of the other pending URLs
   gets an entry in the store during that run. *)
C5_CapFirstN ==
    (pc = "done" /\ args.max_requests > 0 /\ Len(fullPending) > args.max_requests)
        => /\ dispatched = SubSeq(fullPending, 1, args.max_requests)
           /\ \A i \in (args.max_requests + 1)..Len(fullPending) :
                Str(fullPending[i]) \notin UrlsOf(NewEntries)

(* C6: per-URL errors never abort the run: no run ends by an exception, and a
   run that is not killed ends with one result appended for each dispatched URL
   and with the store holding the kept entries followed by those results. *)
C6_ErrorsNeverAbort ==
    /\ prev.ended # "crashed"
    /\ pc = "done" =>
        IF fullPending = <<>>
        THEN dispatched = <<>> /\ storeFile = fileAtStart
        ELSE /\ dispatched = pending
             /\ Len(appended) = Len(pending)
             /\ Range(appended) = 1..Len(pending)
             /\ Len(results) = Len(kept) + Len(pending)
             /\ SubSeq(results, 1, Len(kept)) = kept
             /\ storeFile = JsonFile(results)

C6_Witness ==
    /\ pc = "done"
    /\ kept # <<>>
    /\ Len(pending) = 2
    /\ \E i, j \in 1..Len(NewEntries) :
        /\ Truthy(Get(NewEntries[i], "scrape_error"))
        /\ Truthy(Get(NewEntries[j], "llm_error"))

\* ------------------------------------------------------------------------
\* llm_providers: texts and numbers the retry loops read
\* ------------------------------------------------------------------------
MAX_RETRIES == 3

DIGITS == <<"0", "1", "2", "3", "4", "5", "6", "7", "8", "9">>
IsDigit(c) == c \in Range(DIGITS)
DigitVal(c) == (CHOOSE i \in 1..Len(DIGITS) : DIGITS[i] = c) - 1

\* int() of a run of digits
RECURSIVE ToInt(_)
ToInt(ds) ==
    IF ds = <<>> THEN 0
    ELSE 10 * ToInt(SubSeq(ds, 1, Len(ds) - 1)) + DigitVal(ds[Len(ds)])

\* the last position of the run of digits that starts at p
DigitRunEnd(text, p) ==
    CHOOSE q \in p..Len(text) :
        /\ \A k \in p..q : IsDigit(text[k])
        /\ q = Len(text) \/ ~IsDigit(text[q + 1])

\* (\d+)s matches at p
DelayAt(text, p) ==
    /\ IsDigit(text[p])
    /\ DigitRunEnd(text, p) < Len(text)
    /\ text[DigitRunEnd(text, p) + 1] = "s"

\* re.search(r'retryDelay.*?(\d+)s', text): group 1 of the match, <<>> when
\* there is none. The word retryDelay is one symbol of a text; the texts here
\* have no line break.
RetryDelaySearch(text) ==
    LET words == {i \in 1..Len(text) : text[i] = "retryDelay"}
        first == CHOOSE i \in words : \A j \in words : i <= j
        found == {p \in 1..Len(text) : words # {} /\ p > first /\ DelayAt(text, p)}
        p0 == CHOOSE p \in found : \A q \in found : p <= q
    IN  IF found = {} THEN <<>> ELSE SubSeq(text, p0, DigitRunEnd(text, p0))

RATE_LIMIT == <<"4", "2", "9">>

\* str() of what the Gemini client raises
GEMINI_429 == <<"4", "2", "9", " RESOURCE_EXHAUSTED">>
GEMINI_429_DELAY ==
    <<"4", "2", "9", " RESOURCE_EXHAUSTED ", "retryDelay", ": ", "7", "s">>
GEMINI_503 == <<"5", "0", "3", " UNAVAILABLE">>
\* a refusal that is no rate limit and whose message quotes a number
GEMINI_400_COUNT ==
    <<"4", "0", "0", " INVALID_ARGUMENT token count ", "1", "4", "2", "9", "0">>

\* str() of the JSONDecodeError of json.loads: the message ends with the place
\* of the fault in the text, "line 1 column 8 (char 7)"
JSON_ERR_AT_7 == <<"Expecting value: line 1 column ", "8", " (char ", "7", ")">>
JSON_ERR_AT_429 ==
    <<"Expecting value: line 1 column ", "4", "3", "0", " (char ", "4", "2", "9", ")">>

\* str() of the HTTPError of response.raise_for_status()
HttpErrorText(status) ==
    IF status = 429 THEN <<"4", "2", "9", " Client Error: Too Many Requests">>
    ELSE <<"5", "0", "0", " Server Error">>

ERR_CONNECTION == <<"ConnectionError">>
ERR_VALUE == <<"invalid literal for int() with base 10">>

\* the texts a provider can return as the model's answer
ObjWithErrors ==
    [site_cat |-> List(<<CODE_IAB1>>), scrape_error |-> Str(<<"x">>),
     llm_error |-> Str(<<"y">>)]
ProviderDocs ==
    {JsonObject(ObjGood), JsonObject(ObjWithUrl), JsonObject(ObjWithErrors),
     JsonOther, JsonInvalid(JSON_ERR_AT_7), JsonInvalid(JSON_ERR_AT_429)}

\* what one request gives: the client raises (text is its str()), or an answer
\* arrives, with an HTTP status and headers for the variants that speak HTTP
GeminiResponses ==
    {[kind |-> "text", doc |-> d] : d \in ProviderDocs}
    \cup {[kind |-> "exc", status |-> 429, text |-> t] : t \in {GEMINI_429, GEMINI_429_DELAY}}
    \cup {[kind |-> "exc", status |-> 503, text |-> GEMINI_503],
          [kind |-> "exc", status |-> 400, text |-> GEMINI_400_COUNT]}

\* a retry-after header that gives a date and not a number of seconds
HTTP_DATE == <<"Wed, 21 Oct 2026 07:28:00 GMT">>

HttpResponses ==
    {[kind |-> "http", status |-> 200, retry_after |-> None, doc |-> d] : d \in ProviderDocs}
    \cup {[kind |-> "http", status |-> 429, retry_after |-> h, doc |-> JsonOther] :
             h \in {None, Str(<<"7">>), Str(HTTP_DATE)}}
    \cup {[kind |-> "http", status |-> 500, retry_after |-> None, doc |-> JsonOther]}
    \cup {[kind |-> "exc", text |-> ERR_CONNECTION]}

\* what the body of a retry loop does with one attempt
Finish(o) == [act |-> "finish", outcome |-> o]
Sleep(w) == [act |-> "sleep", wait |-> w]
Continue == [act |-> "continue"]

\* attempt < MAX_RETRIES - 1, with a variant that always holds
CanRetry_Always(a) == TRUE

CanRetry(a) == a < MAX_RETRIES - 1

\* GeminiProvider.classify, the body of the loop (lines 378-398)
Gemini_attempt(r, a) ==
    LET tried == IF r.kind = "text" THEN parse_llm_response(r.doc) ELSE Raise(r.text)
    IN  IF tried.kind = "return" THEN Finish(tried)
        ELSE LET error_str == tried.error
                 match == RetryDelaySearch(error_str)
             IN  IF Contains(error_str, RATE_LIMIT) /\ CanRetry(a)
                 THEN Sleep(IF match # <<>> THEN ToInt(match) ELSE 30 * (a + 1))
                 ELSE Finish(tried)

\* GroqProvider.classify, the body of the loop (lines 431-458); an exception
\* that is not an HTTPError passes the except clause
Groq_attempt(r, a) ==
    IF r.kind = "exc" THEN Finish(Raise(r.text))
    ELSE IF r.status = 429 /\ CanRetry(a)
    THEN IF r.retry_after = None THEN Sleep(30 * (a + 1))
         ELSE IF \A i \in 1..Len(r.retry_after.s) : IsDigit(r.retry_after.s[i])
         THEN Sleep(ToInt(r.retry_after.s))
         ELSE Finish(Raise(ERR_VALUE))
    ELSE IF r.status >= 400
    THEN IF CanRetry(a) /\ r.status = 429 THEN Continue
         ELSE Finish(Raise(HttpErrorText(r.status)))
    ELSE Finish(parse_llm_response(r.doc))

\* OllamaProvider.classify (lines 407-421)
Ollama_classify(r) ==
    IF r.kind = "exc" THEN Raise(r.text)
    ELSE IF r.status >= 400 THEN Raise(HttpErrorText(r.status))
    ELSE parse_llm_response(r.doc)

\* ------------------------------------------------------------------------
\* One call of process_url, step by step: scrape_url with its fetch thread,
\* then provider.classify with its retry loop
\* ------------------------------------------------------------------------
URL == UrlA

LANG_DETECTED == <<"e", "s">>
ERR_EXCEPTION == <<"ParserError">>

\* what _extract_metadata can return for a page
Metadata ==
    {[title |-> t, description |-> None, meta_keywords |-> None,
      og_tags |-> Dict(<<>>), language_hint |-> l] :
        t \in {None, Str(TITLE)}, l \in {None, Str(LANG)}}

PipeIdle ==
    /\ inputFile = <<>>
    /\ storeFile = AbsentFile
    /\ pc = "idle"
    /\ args = NoArgs
    /\ fileAtStart = AbsentFile
    /\ prev = NoPrev
    /\ NoMemory

\* scrape_url has built `result` and started the thread (scraper.py 89-101)
UrlInit ==
    /\ provider \in {"gemini", "ollama", "groq"}
    /\ upc = "join"
    /\ thread = "fetching"
    /\ scraped = EmptyPage(URL)
    /\ seen = NoSeen
    /\ attempt = 0
    /\ responses = <<>>
    /\ waits = <<>>
    /\ outcome = NoOutcome
    /\ entry = None
    /\ timedOut = FALSE
    /\ atTimeout = None
    /\ threadError = FALSE

\* _scrape_with_timeout, lines 59-62: nothing was downloaded
ThreadFetchFails ==
    /\ thread = "fetching"
    /\ scraped' = [scraped EXCEPT !.error = Str(ERR_DOWNLOAD)]
    /\ thread' = "dead"
    /\ threadError' = TRUE
    /\ UNCHANGED <<provider, upc, seen, attempt, responses, waits, outcome, entry,
                   timedOut, atTimeout>>
    /\ UNCHANGED <<pipeVars, pureVars>>

\* line 59: the page was downloaded
ThreadFetched ==
    /\ thread = "fetching"
    /\ thread' = "downloaded"
    /\ UNCHANGED <<provider, upc, scraped, seen, attempt, responses, waits, outcome,
                   entry, timedOut, atTimeout, threadError>>
    /\ UNCHANGED <<pipeVars, pureVars>>

\* lines 64-65: result.update(metadata)
ThreadMetadata ==
    /\ thread = "downloaded"
    /\ \E metadata \in Metadata : scraped' = Merge(scraped, metadata)
    /\ thread' = "extracted"
    /\ UNCHANGED <<provider, upc, seen, attempt, responses, waits, outcome, entry,
                   timedOut, atTimeout, threadError>>
    /\ UNCHANGED <<pipeVars, pureVars>>

\* lines 67-75: the text, then the language detected from it when the page
\* named none (detect may raise LangDetectException, which is passed over)
ThreadText ==
    /\ thread = "extracted"
    /\ \E text \in {None, Str(<<"x">>)}, detected \in {None, Str(LANG_DETECTED)} :
        LET withText == IF Truthy(text) THEN [scraped EXCEPT !.text_content = text]
                        ELSE scraped
        IN  scraped' = IF ~Truthy(withText.language_hint) /\ Truthy(withText.text_content)
                          /\ detected # None
                       THEN [withText EXCEPT !.language_hint = detected]
                       ELSE withText
    /\ thread' = "dead"
    /\ UNCHANGED <<provider, upc, seen, attempt, responses, waits, outcome, entry,
                   timedOut, atTimeout, threadError>>
    /\ UNCHANGED <<pipeVars, pureVars>>

\* lines 77-78: an exception anywhere in the thread's work
ThreadRaises ==
    /\ thread \in {"fetching", "downloaded", "extracted"}
    /\ scraped' = [scraped EXCEPT !.error = Str(ERR_EXCEPTION)]
    /\ thread' = "dead"
    /\ threadError' = TRUE
    /\ UNCHANGED <<provider, upc, seen, attempt, responses, waits, outcome, entry,
                   timedOut, atTimeout>>
    /\ UNCHANGED <<pipeVars, pureVars>>

\* scrape_url, line 102: thread.join(timeout=timeout) returns, the thread
\* having ended or the time being over
Join ==
    /\ upc = "join"
    /\ upc' = "is_alive"
    /\ UNCHANGED <<provider, thread, scraped, seen, attempt, responses, waits,
                   outcome, entry, timedOut, atTimeout, threadError>>
    /\ UNCHANGED <<pipeVars, pureVars>>

\* scrape_url, lines 104-107
IsAlive ==
    /\ upc = "is_alive"
    /\ IF thread # "dead"
       THEN /\ scraped' = [scraped EXCEPT !.error = Str(ERR_TIMEOUT)]
            /\ timedOut' = TRUE
            /\ atTimeout' = scraped'
       ELSE UNCHANGED <<scraped, timedOut, atTimeout>>
    /\ upc' = "check"
    /\ UNCHANGED <<provider, thread, seen, attempt, responses, waits, outcome, entry,
                   threadError>>
    /\ UNCHANGED <<pipeVars, pureVars>>

\* process_url, line 116
CheckError ==
    /\ upc = "check"
    /\ upc' = IF fetch_failed(scraped) THEN "read_error" ELSE "classify"
    /\ UNCHANGED <<provider, thread, scraped, seen, attempt, responses, waits,
                   outcome, entry, timedOut, atTimeout, threadError>>
    /\ UNCHANGED <<pipeVars, pureVars>>

\* process_url, line 119: scraped["error"]
ReadError ==
    /\ upc = "read_error"
    /\ seen' = [seen EXCEPT !.error = scraped.error]
    /\ upc' = "read_lang"
    /\ UNCHANGED <<provider, thread, scraped, attempt, responses, waits, outcome,
                   entry, timedOut, atTimeout, threadError>>
    /\ UNCHANGED <<pipeVars, pureVars>>

\* process_url, line 123: scraped.get("language_hint")
ReadLang ==
    /\ upc = "read_lang"
    /\ seen' = [seen EXCEPT !.language_hint = Get(scraped, "language_hint")]
    /\ upc' = "read_title"
    /\ UNCHANGED <<provider, thread, scraped, attempt, responses, waits, outcome,
                   entry, timedOut, atTimeout, threadError>>
    /\ UNCHANGED <<pipeVars, pureVars>>

\* process_url, lines 125 and 117: scraped.get("title"), and the entry returned
ReadTitle ==
    /\ upc = "read_title"
    /\ seen' = [seen EXCEPT !.title = Get(scraped, "title")]
    /\ entry' = ScrapeErrorEntry(URL, seen')
    /\ upc' = "done"
    /\ UNCHANGED <<provider, thread, scraped, attempt, responses, waits, outcome,
                   timedOut, atTimeout, threadError>>
    /\ UNCHANGED <<pipeVars, pureVars>>

\* the for loop of classify goes to its next attempt; with none left the loop
\* ends and classify returns None
NextAttempt ==
    IF attempt + 1 < MAX_RETRIES
    THEN attempt' = attempt + 1 /\ upc' = "classify" /\ UNCHANGED outcome
    ELSE outcome' = FellThrough /\ upc' = "classified" /\ UNCHANGED attempt

\* what the loop does once the body of an attempt has decided
Proceed(step) ==
    IF step.act = "finish"
    THEN outcome' = step.outcome /\ upc' = "classified" /\ UNCHANGED <<attempt, waits>>
    ELSE IF step.act = "sleep"
    THEN waits' = Append(waits, step.wait) /\ upc' = "sleeping"
         /\ UNCHANGED <<attempt, outcome>>
    ELSE NextAttempt /\ UNCHANGED waits

\* GeminiProvider.classify: one request and what the loop makes of its answer
GeminiRequest ==
    /\ upc = "classify"
    /\ provider = "gemini"
    /\ \E r \in GeminiResponses :
        /\ responses' = Append(responses, r)
        /\ Proceed(Gemini_attempt(r, attempt))
    /\ UNCHANGED <<provider, thread, scraped, seen, entry, timedOut, atTimeout, threadError>>
    /\ UNCHANGED <<pipeVars, pureVars>>

\* GroqProvider.classify: one request and what the loop makes of its answer
GroqRequest ==
    /\ upc = "classify"
    /\ provider = "groq"
    /\ \E r \in HttpResponses :
        /\ responses' = Append(responses, r)
        /\ Proceed(Groq_attempt(r, attempt))
    /\ UNCHANGED <<provider, thread, scraped, seen, entry, timedOut, atTimeout, threadError>>
    /\ UNCHANGED <<pipeVars, pureVars>>

\* OllamaProvider.classify: its one request
OllamaRequest ==
    /\ upc = "classify"
    /\ provider = "ollama"
    /\ \E r \in HttpResponses :
        /\ responses' = Append(responses, r)
        /\ outcome' = Ollama_classify(r)
    /\ upc' = "classified"
    /\ UNCHANGED <<provider, thread, scraped, seen, attempt, waits, entry, timedOut, atTimeout,
                   threadError>>
    /\ UNCHANGED <<pipeVars, pureVars>>

\* time.sleep returns and the loop goes on
Wake ==
    /\ upc = "sleeping"
    /\ NextAttempt
    /\ UNCHANGED <<provider, thread, scraped, seen, responses, waits, entry,
                   timedOut, atTimeout, threadError>>
    /\ UNCHANGED <<pipeVars, pureVars>>

\* process_url, lines 127-140: the entry made of what classify did
Classified ==
    /\ upc = "classified"
    /\ entry' = process_url(URL, scraped, outcome)
    /\ upc' = "done"
    /\ UNCHANGED <<provider, thread, scraped, seen, attempt, responses, waits,
                   outcome, timedOut, atTimeout, threadError>>
    /\ UNCHANGED <<pipeVars, pureVars>>

NextUrl ==
    \/ ThreadFetchFails
    \/ ThreadFetched
    \/ ThreadMetadata
    \/ ThreadText
    \/ ThreadRaises
    \/ Join
    \/ IsAlive
    \/ CheckError
    \/ ReadError
    \/ ReadLang
    \/ ReadTitle
    \/ GeminiRequest
    \/ GroqRequest
    \/ OllamaRequest
    \/ Wake
    \/ Classified

InitUrl == PipeIdle /\ UrlInit /\ PureIdle

SpecUrl == InitUrl /\ [][NextUrl]_vars

\* ------------------------------------------------------------------------
\* Properties of one call of process_url
\* ------------------------------------------------------------------------
\* the fetch failed: the thread recorded a failure, or it was still at work
\* when the time was over
FetchFailed == timedOut \/ threadError

\* the rate-limit signal: status 429, which the Gemini client reports by
\* raising an error of that status
IsRateLimit(r) == "status" \in DOMAIN r /\ r.status = 429

\* a failed call that is no rate-limit signal: no answer at all, or a status
\* above 399 other than 429
IsOtherError(r) ==
    \/ r.kind = "exc" /\ ~IsRateLimit(r)
    \/ r.kind = "http" /\ r.status >= 400 /\ r.status # 429

\* a successful call whose body json.loads rejects
IsMalformed(r) ==
    /\ r.kind = "text" \/ (r.kind = "http" /\ r.status = 200)
    /\ r.doc.j = "invalid"

C8_ErrorFieldsMatchFailure ==
    upc = "done" =>
        /\ Truthy(Get(entry, "scrape_error")) <=> FetchFailed
        /\ Truthy(Get(entry, "llm_error")) <=> (~FetchFailed /\ outcome.kind # "return")
        /\ ~(Truthy(Get(entry, "scrape_error")) /\ Truthy(Get(entry, "llm_error")))

\* C9: a classify call makes at most 3 requests with Gemini and Groq and
\* exactly 1 with Ollama; when all 3 attempts get the rate-limit signal, the
\* third raises, after 2 waits and 3 requests.
C9_AttemptBudget ==
    /\ Len(responses) <= 3
    /\ (provider = "ollama" /\ upc \in {"classified", "done"} /\ ~FetchFailed)
          => Len(responses) = 1
    /\ (Len(responses) = 3 /\ \A i \in 1..3 : IsRateLimit(responses[i]))
          => /\ upc \in {"classified", "done"}
             /\ outcome.kind = "raise"
             /\ Contains(outcome.error, RATE_LIMIT)
             /\ Len(waits) = 2

\* C9 happens: three rate-limit signals in a row, and the call is over
C9_Witness ==
    /\ upc = "done"
    /\ provider = "groq"
    /\ Len(responses) = 3
    /\ \A i \in 1..3 : IsRateLimit(responses[i])
    /\ Truthy(Get(entry, "llm_error"))

\* C10: a malformed body of a successful call is never retried, in any
\* variant: it is the answer to the only request of the call, and the entry
\* returned has llm_error set.
C10_MalformedNeverRetried ==
    \A i \in 1..Len(responses) :
        IsMalformed(responses[i]) =>
            /\ Len(responses) = i
            /\ upc \in {"classified", "done"}
            /\ upc = "done" => Truthy(Get(entry, "llm_error"))

\* C11: in every variant, a call that fails with an error that is no
\* rate-limit signal is raised at once: it answers the last request of the
\* call, no wait follows it, and classify ends by raising.
C11_OtherErrorsRaisedAtOnce ==
    \A i \in 1..Len(responses) :
        IsOtherError(responses[i]) =>
            /\ Len(responses) = i
            /\ Len(waits) < i
            /\ upc \in {"classified", "done"}
            /\ outcome.kind = "raise"

\* ------------------------------------------------------------------------
\* Properties of the pipeline: saving, termination, startup
\* ------------------------------------------------------------------------
\* C12: in sequential mode, between two URLs (and after the last one) the
\* store file equals the result list in memory, which is the kept entries
\* followed by one result for each URL of a prefix of pending, in order.
C12_SequentialOrderAndSave ==
    (args.workers = 1 /\ pc \in {"seq", "done"} /\ idx > 0) =>
        /\ storeFile = JsonFile(results)
        /\ Len(results) = Len(kept) + idx
        /\ SubSeq(results, 1, Len(kept)) = kept
        /\ dispatched = SubSeq(pending, 1, idx)
        /\ appended = [k \in 1..idx |-> k]
        /\ \A k \in 1..idx : results[Len(kept) + k] \in UrlResults(pending[k])

\* C12 happens: a sequential run that kept entries, between its two URLs
C12_Witness ==
    /\ args.workers = 1 /\ pc = "seq" /\ idx = 1
    /\ Len(pending) = 2 /\ kept # <<>>
    /\ storeFile = JsonFile(results)

\* C13: in concurrent mode a snapshot is written exactly when the completion
\* counter reaches a multiple of 10, and once more when every future has
\* been collected; a periodic snapshot holds the kept entries plus as many
\* new results as the counter says, the final one a result for every
\* dispatched URL.
C13_ConcurrentSnapshots ==
    /\ [](args.workers > 1 =>
            /\ pc \in {"save", "saving"} =>
                  \/ saveNext = "par" /\ completed_count > 0
                       /\ completed_count % 10 = 0
                  \/ saveNext = "done" /\ AllCollected
            /\ pc = "par" =>
                  /\ Len(results) = Len(kept) + completed_count
                  /\ IF completed_count < 10 THEN storeFile = fileAtStart
                     ELSE storeFile = JsonFile(SubSeq(results, 1,
                              Len(kept) + 10 * (completed_count \div 10)))
            /\ (pc = "done" /\ pending # <<>>) =>
                  /\ storeFile = JsonFile(results)
                  /\ completed_count = Len(pending)
                  /\ {dispatched[k] : k \in 1..Len(dispatched)}
                       = {pending[k] : k \in 1..Len(pending)}
                  /\ Range(appended) = 1..Len(pending)
                  /\ Len(results) = Len(kept) + Len(pending))
    /\ [][(args.workers > 1 /\ pc = "par" /\ pc' = "par"
            /\ completed_count' # completed_count)
              => completed_count' % 10 # 0]_vars
    /\ [][(args.workers > 1 /\ pc = "par" /\ pc' = "done") => FALSE]_vars

\* C13 happens: the periodic snapshot of a concurrent run is in the file and
\* one URL is still to be collected
C13_Witness ==
    /\ args.workers > 1 /\ pc = "par"
    /\ completed_count = 10 /\ Len(pending) = 11
    /\ storeFile = JsonFile(results)

\* the URLs whose work is done in this run, as positions in results, whose
\* result a load of the file would not find, and the futures that are done
\* and not yet collected
Unsaved ==
    {k \in (Len(kept) + 1)..Len(results) :
        ~(storeFile.kind = "json" /\ Len(storeFile.data) >= k
          /\ storeFile.data[k] = results[k])}
LostIfTerminated == Cardinality(Unsaved) + Cardinality(FinishedIdx)

\* C14: wherever a run is terminated, the URLs whose work was completed in
\* the run and whose result is missing from the store are at most 9 in
\* concurrent mode and none in sequential mode.
C14_BoundedLoss ==
    pc \notin {"idle", "done"} =>
        LostIfTerminated <= IF args.workers > 1 THEN 9 ELSE 0

\* C15: save is atomic: when the process has been terminated, also in the
\* middle of a save, the store file holds a complete snapshot, never a
\* document cut short.
C15_SaveAtomic ==
    (pc = "idle" /\ prev.ended = "killed") => storeFile.kind # "partial"

\* a store file that holds an array of result objects, each with a url
ValidStore(file) ==
    file.kind = "json" /\ \A i \in 1..Len(file.data) : "url" \in DOMAIN file.data[i]

\* C16: a store file that is absent, unreadable or invalid is an empty prior
\* state and never fatal: no run dies of it, and a run that finds such a
\* file keeps nothing and has every input URL pending.
C16_BadStoreIsEmpty ==
    /\ prev.ended # "fatal"
    /\ (pc # "idle" /\ ~ValidStore(fileAtStart)) =>
           kept = <<>> /\ fullPending = load_urls(inputFile)

\* ------------------------------------------------------------------------
\* The functions called on their own: _ensure_parent_cats on a list of
\* codes, normalize_url on a line
\* ------------------------------------------------------------------------
\* category codes: with no separator, with one, with two, with nothing
\* before the separator
Codes ==
    {<<"A">>, <<"B">>, <<"A", "-", "1">>, <<"A", "-", "1", "-", "2">>,
     <<"B", "-", "1">>, <<"-", "1">>}
CodeLists == UNION {[1..k -> Codes] : k \in 0..3}

\* the characters of a line of the input file
LineSymbols == {" ", "\n", QUOTE, "a", "http", "s", "://"}
Lines == UNION {[1..k -> LineSymbols] : k \in 0..4}

PureInit ==
    /\ call \in {[fn |-> "_ensure_parent_cats", arg |-> cats] : cats \in CodeLists}
               \cup {[fn |-> "normalize_url", arg |-> raw] : raw \in Lines}
    /\ ret = NotReturned

CallEnsureParentCats ==
    /\ call.fn = "_ensure_parent_cats"
    /\ ~ret.returned
    /\ ret' = [returned |-> TRUE, value |-> _ensure_parent_cats(call.arg)]
    /\ UNCHANGED <<call, pipeVars, urlVars>>

CallNormalizeUrl ==
    /\ call.fn = "normalize_url"
    /\ ~ret.returned
    /\ ret' = [returned |-> TRUE, value |-> normalize_url(call.arg)]
    /\ UNCHANGED <<call, pipeVars, urlVars>>

NextPure == CallEnsureParentCats \/ CallNormalizeUrl

InitPure == PipeIdle /\ UrlIdle /\ PureInit

SpecPure == InitPure /\ [][NextPure]_vars

\* the part of a code before its first separator
ParentOf(code) ==
    SubSeq(code, 1, (CHOOSE i \in 1..Len(code) :
                        code[i] = "-" /\ \A j \in 1..(i - 1) : code[j] # "-") - 1)

\* C17: the normalized list holds the parent of every code of the list that
\* has a separator, and normalizing it again gives the same list.
C17_ParentClosure ==
    (call.fn = "_ensure_parent_cats" /\ ret.returned) =>
        /\ \A i \in 1..Len(call.arg) :
              "-" \in Range(call.arg[i]) => ParentOf(call.arg[i]) \in Range(ret.value)
        /\ \A i \in 1..Len(ret.value) :
              "-" \in Range(ret.value[i]) => ParentOf(ret.value[i]) \in Range(ret.value)
        /\ _ensure_parent_cats(ret.value) = ret.value

\* C17 happens: a list with two codes under one parent that it lacks, and a
\* code with two separators
C17_Witness ==
    /\ call.fn = "_ensure_parent_cats" /\ ret.returned
    /\ call.arg = << <<"A", "-", "1">>, <<"A", "-", "1", "-", "2">>, <<"B", "-", "1">> >>
    /\ ret.value = call.arg \o << <<"A">>, <<"B">> >>

\* a line with its surrounding whitespace and quote characters trimmed away
Trimmed(raw) == Strip(raw, WHITESPACE \cup {QUOTE})

\* C18: normalize_url returns nothing exactly when the trimmed line is empty
\* or a placeholder; otherwise it returns the trimmed line, which has no
\* whitespace or quote character at either end, with https:// put in front
\* exactly when the line starts with neither http:// nor https://.
C18_NormalizeUrl ==
    (call.fn = "normalize_url" /\ ret.returned) =>
        LET t == Trimmed(call.arg)
            prefixed == StartsWith(t, HTTP_SCHEME) \/ StartsWith(t, HTTPS_SCHEME)
        IN  IF t = <<>> \/ t \in {HTTP_SCHEME, HTTPS_SCHEME, HTTP, HTTPS}
            THEN ret.value = None
            ELSE /\ ret.value = Str(IF prefixed THEN t ELSE HTTPS_SCHEME \o t)
                 /\ ret.value.s[Len(ret.value.s)] \notin WHITESPACE \cup {QUOTE}

\* C19: a run that asks for Gemini or Groq and has no API key always ends in
\* the configuration error, before anything is fetched, requested or
\* written: no such run gets past its startup.
C19_NoKeyIsFatal ==
    args.keyless => pc = "idle"

\* C20: in concurrent mode with W workers, at every moment at most W URLs
\* are inside a process_url call (the fetch-then-classify sequence), however
\* many URLs are pending.
C20_AtMostWWorkers ==
    args.workers > 1 => Cardinality(Running) <= args.workers

\* W calls are running while URLs still wait in the queue of the pool
C20_Witness ==
    /\ args.workers > 1
    /\ Cardinality(Running) = args.workers
    /\ Cardinality(QueuedIdx) > args.workers

\* ------------------------------------------------------------------------
\* More properties of one call of process_url
\* ------------------------------------------------------------------------
\* C21: when a fetch times out, nothing the abandoned fetch writes after the
\* time was over appears in the entry of the URL: the error text is the
\* time-out, and the title and language hint are those scrape_url returned.
C21_AbandonedFetchDiscarded ==
    (timedOut /\ upc = "done") =>
        /\ entry["scrape_error"] = Str(ERR_TIMEOUT)
        /\ entry["site_content_title"] = atTimeout["title"]
        /\ entry["site_content_language"] = atTimeout["language_hint"]

\* the server names a number of seconds to wait: retryDelay in the error text
\* of Gemini, the retry-after header of Groq
HasSuggestion(r) ==
    \/ r.kind = "exc" /\ r.text = GEMINI_429_DELAY
    \/ r.kind = "http" /\ r.retry_after = Str(<<"7">>)

\* C22: with Gemini and Groq, a rate-limit signal on attempt 1 or 2 is
\* followed by a wait and then another attempt; the wait is the one the
\* server suggests when it suggests one, and 30 seconds times the number of
\* the attempt otherwise.
C22_RateLimitBackoff ==
    provider \in {"gemini", "groq"} =>
        \A i \in 1..Len(responses) :
            (i < MAX_RETRIES /\ IsRateLimit(responses[i])) =>
                /\ Len(waits) >= i
                /\ waits[i] = IF HasSuggestion(responses[i]) THEN 7 ELSE 30 * i
                /\ Len(responses) > i \/ upc \in {"sleeping", "classify"}

\* C28: every classify call ends by raising an error or by returning an
\* object with all six expected fields, in each variant and whatever the
\* provider answers; the retry loop never ends without a result.
C28_ClassifyRaisesOrReturnsAll ==
    /\ (upc \in {"classified", "done"} /\ responses # <<>>) =>
        /\ outcome.kind \in {"raise", "return"}
        /\ outcome.kind = "return" =>
              /\ EXPECTED_FIELDS \subseteq DOMAIN outcome.value
              /\ Cardinality(EXPECTED_FIELDS) = 6
    /\ upc \in {"classify", "sleeping"} => outcome = NoOutcome /\ attempt < MAX_RETRIES

\* C28 happens: two rate-limit signals, then an object with two of the six
\* fields, which classify returns with the other four set to null
C28_Witness ==
    /\ upc = "classified"
    /\ provider = "gemini"
    /\ Len(responses) = 3
    /\ IsRateLimit(responses[1]) /\ IsRateLimit(responses[2])
    /\ responses[3] = [kind |-> "text", doc |-> JsonObject(ObjGood)]
    /\ outcome.kind = "return"
    /\ outcome.value["site_content_title"] = None

\* ------------------------------------------------------------------------
\* More properties of the pipeline
\* ------------------------------------------------------------------------
\* what a sequential run with a delay does at step k: URL, save, sleep, and
\* again
Paced(k, delay) ==
    IF (k - 1) % 3 = 0 THEN Processed((k - 1) \div 3 + 1)
    ELSE IF (k - 1) % 3 = 1 THEN [ev |-> "save", n |-> 0]
    ELSE Slept(delay)

\* what an entry of the log says was done, and how long or at which position
Done(e) == [ev |-> e.ev, n |-> e.n]

\* C23: in sequential mode with a delay above 0, each URL is followed by one
\* save and then one sleep of the delay before the next URL starts, whatever
\* the entry of the URL, and no sleep follows the last URL; in concurrent
\* mode there is no such sleep.
C23_SequentialPacing ==
    /\ (args.workers = 1 /\ args.delay > 0 /\ pending # <<>>) =>
        /\ \A k \in 1..Len(log) : Done(log[k]) = Paced(k, args.delay)
        /\ Len(log) <= 3 * Len(pending) - 1
        /\ pc = "seq" => Len(log) = 3 * idx
        /\ pc = "done" => Len(log) = 3 * Len(pending) - 1
    /\ args.workers > 1 => \A k \in 1..Len(log) : log[k].ev = "save"

\* a sequential run with a delay has processed two URLs, the first of them
\* with an error, and is over
C23_Witness ==
    /\ args.workers = 1 /\ args.delay > 0
    /\ pc = "done"
    /\ Len(pending) = 2
    /\ Len(log) = 5
    /\ Len(results) = 2 /\ HasError(results[1])

\* ------------------------------------------------------------------------
\* More properties of the functions called on their own
\* ------------------------------------------------------------------------
\* C24: the normalized list starts with the whole input list, unchanged and
\* in its order; every code after it is the parent of a code of the input
\* list, was absent from the input list, and is there once.
C24_OnlyAppends ==
    (call.fn = "_ensure_parent_cats" /\ ret.returned) =>
        LET given == Len(call.arg)
            added == (given + 1)..Len(ret.value)
        IN  /\ Len(ret.value) >= given
            /\ SubSeq(ret.value, 1, given) = call.arg
            /\ \A i \in added :
                  /\ \E j \in 1..given :
                        "-" \in Range(call.arg[j]) /\ ParentOf(call.arg[j]) = ret.value[i]
                  /\ ret.value[i] \notin Range(call.arg)
                  /\ \A k \in added : ret.value[k] = ret.value[i] => k = i

\* C24 happens: a list that names a code twice and lacks both parents
C24_Witness ==
    /\ call.fn = "_ensure_parent_cats" /\ ret.returned
    /\ call.arg = << <<"A", "-", "1">>, <<"B", "-", "1">>, <<"A", "-", "1">> >>
    /\ ret.value = call.arg \o << <<"A">>, <<"B">> >>

\* the saves of the current run, as positions of the log
Saves == {k \in 1..Len(log) : log[k].ev = "save"}
IsPrefix(a, b) == Len(a) <= Len(b) /\ SubSeq(b, 1, Len(a)) = a

\* C25: within one run every snapshot written to the store is the snapshot
\* written before it with new entries put at its end: no entry written in
\* the run is changed, removed or moved afterwards.
C25_SnapshotsOnlyGrow ==
    /\ \A j, k \in Saves :
          j < k => IsPrefix(EntriesOf(log[j].file), EntriesOf(log[k].file))
    /\ (Saves # {} /\ storeFile.kind = "json") =>
          storeFile = log[CHOOSE k \in Saves : \A j \in Saves : j <= k].file

\* a second snapshot of a run is in the store, one entry longer than the first
C25_Witness ==
    /\ Cardinality(Saves) = 2
    /\ storeFile.kind = "json"
    /\ \E j \in Saves :
          /\ Len(EntriesOf(storeFile)) = Len(EntriesOf(log[j].file)) + 1
          /\ EntriesOf(log[j].file) # <<>>

\* C26: the entry appended for a dispatched URL has that URL as its url,
\* whatever object the provider returned.
C26_EntryUrlIsDispatchedUrl ==
    \A k \in 1..Len(appended) :
        k <= Len(NewEntries) => NewEntries[k]["url"] = Str(pending[appended[k]])

\* C27: every URL that has an entry in the store when a run starts has an
\* entry in the store at every later point of the run, whatever the flags and
\* the input file, and also while and after the run is terminated.
C27_NoUrlLeavesStore ==
    pc # "idle" => UrlsOf(StoredAtStart) \subseteq UrlsOf(EntriesOf(storeFile))

============================================================================
